---- MODULE Spec2Model ----
(***************************************************************************)
(* Model of the Donkee bot (src/src/index.js).                             *)
(*                                                                         *)
(*  - the persister storeTweet, in the current revision (lines 123-143)    *)
(*    and in the earlier revision kept in the same file (lines 471-481);   *)
(*  - the ingestion run searchAndStoreTweets (lines 148-189) under its     *)
(*    caller, the GET /search handler (lines 303-316);                     *)
(*  - the GET /tweet handler with its daily limit (lines 319-405).         *)
(*                                                                         *)
(* Every await of the code is a point where another request handler may    *)
(* run, so every action below is the code between two awaits.              *)
(***************************************************************************)
EXTENDS Integers, Sequences, FiniteSets, Bags, TLC

\* ------------------------------------------------------------------ bounds
NumIds == 2          \* distinct tweet ids the platform hands out
MaxCount == 1        \* largest like / retweet count of an item
MaxDocs == 2         \* documents written in the persister-only specification
MaxBatch == 2        \* items in one page returned by a read call
NumReq == 2          \* /search requests handled at once

\* ------------------------------------------------------------- JS values
\* A field that is absent (undefined) in a JS object; counts are >= 0.
Undefined == -1

Ids == 1..NumIds
Counts == 0..MaxCount
MaybeCounts == Counts \cup {Undefined}

\* x || 0 : index.js 130-131. undefined, null, NaN and 0 are falsy.
OrZero(x) == IF x = Undefined \/ x = 0 THEN 0 ELSE x

\* An item as the read API returns it. has_metrics = FALSE is an item with no
\* public_metrics object at all (what the API returns when tweet.fields is not
\* requested); created_at is the hour the tweet was written at; text and
\* entities are carried through unchanged by storeTweet and are left out.
ItemsAt(T) ==
  { t \in [id : Ids, has_metrics : BOOLEAN,
           like_count : MaybeCounts, retweet_count : MaybeCounts, created_at : T] :
      ~t.has_metrics => (t.like_count = Undefined /\ t.retweet_count = Undefined) }

\* The items there are when the clock starts.
RawItems == ItemsAt({0})

\* tweet.public_metrics?.like_count : optional chaining, index.js 130.
OptLikes(t) == IF t.has_metrics THEN t.like_count ELSE Undefined
\* tweet.public_metrics?.retweet_count : index.js 131.
OptRetweets(t) == IF t.has_metrics THEN t.retweet_count ELSE Undefined

\* tweetData of the current revision, index.js 127-134.
tweetData(t) ==
  [tweet_id |-> t.id, likes |-> OrZero(OptLikes(t)), retweets |-> OrZero(OptRetweets(t)),
   timestamp |-> t.created_at]

\* The document of the earlier revision, index.js 474-480: plain member access.
\* It is only evaluated when public_metrics exists; otherwise the access throws.
tweetDataV1(t) ==
  [id |-> t.id, likes |-> t.like_count, retweets |-> t.retweet_count,
   created_at |-> t.created_at]

\* The $jsonSchema validator of the tweets collection, index.js 89-109:
\* likes and retweets are required and of bsonType int.
validator(doc) == doc.likes \in Nat /\ doc.retweets \in Nat

VARIABLES
  db,         \* the module-level handle: TRUE once MongoClient.connect called back
  tweets,     \* collection 'tweets' of the current revision, a bag of documents
  tweetsV1,   \* collection 'tweets' written by the earlier revision
  lastStore   \* the last direct call of a persister: which revision's, the
              \* item given and how the call ended

storeVars == <<db, tweets, tweetsV1, lastStore>>

\* collection.insertOne(doc), index.js 137: the server assigns a fresh _id, and
\* setupTweetCollection (69-82) creates no unique index, so the document is
\* added whatever the collection holds. The write is refused when the
\* validator rejects the document or the storage fails (storageOk = FALSE).
insertOne(coll, doc, storageOk) ==
  IF ~validator(doc) THEN [res |-> "ValidationError", coll |-> coll]
  ELSE IF ~storageOk THEN [res |-> "WriteError", coll |-> coll]
  ELSE [res |-> "ok", coll |-> coll (+) SetToBag({doc})]

\* storeTweet of the current revision, index.js 123-143: how the call ends
\* ("ok", or the error it rejects with) and the collection after it.
storeTweet(coll, t, connected, storageOk) ==
  IF ~connected
  THEN [res |-> "NotConnected", coll |-> coll]
  ELSE insertOne(coll, tweetData(t), storageOk)

\* storeTweet of the earlier revision, index.js 471-481: "skip" when db is not
\* set (472), a TypeError when tweet.public_metrics is undefined (477), a
\* write error from insertOne; that revision installs no validator.
storeTweetV1(coll, t, connected, storageOk) ==
  IF ~connected THEN [res |-> "skip", coll |-> coll]
  ELSE IF ~t.has_metrics THEN [res |-> "TypeError", coll |-> coll]
  ELSE IF ~storageOk THEN [res |-> "WriteError", coll |-> coll]
  ELSE [res |-> "ok", coll |-> coll (+) SetToBag({tweetDataV1(t)})]

\* ------------------------------------------------------- the ingestion run
\* listIds, index.js 163-166. Source 0 is the search query, source i the
\* list listIds[i].
listIds ==
  << "1587987762908651520", "1726621096902807989", "1777037601578287430",
     "1747955009617006656", "1818599454951588008" >>

LastSource == Len(listIds)
Sources == 0..LastSource
\* The sources in configured order.
AllSources == [i \in 1..(LastSource + 1) |-> i - 1]

Reqs == 1..NumReq

\* What a read call (v2.search, v2.listTweets) resolves to: an object whose
\* data is not an array (NoData) or is a page of items. The code asks for no
\* tweet.fields, so the items of a page carry no public_metrics. A page is
\* the n newest matching tweets, newest (largest id) first, and the same
\* tweets may come back from any source and in any later run.
RunItem(i) ==
  [id |-> i, has_metrics |-> FALSE, like_count |-> Undefined, retweet_count |-> Undefined,
   created_at |-> 0]
Newest(n) == [i \in 1..n |-> RunItem(n + 1 - i)]
Pages == {Newest(n) : n \in 0..MaxBatch}
NoData == [isArray |-> FALSE, data |-> <<>>]
ReadResults == {NoData} \cup {[isArray |-> TRUE, data |-> p] : p \in Pages}

\* The errors a read call rejects with: a 429 carrying a reset time, or any other.
ReadErrors == {"RateLimit", "OtherError"}

VARIABLES
  pc,        \* per request: "idle", "read" (awaiting a read call), "store"
             \* (inside the for..of over a page), "done" (response sent)
  src,       \* per request: the source being processed
  page,      \* per request: the page the for..of loop runs over
  pos,       \* per request: items of the page already given to storeTweet
  status,    \* per request: HTTP status sent, 0 while none
  inflight,  \* read calls issued and not yet settled, as <<request, source>>
  calls,     \* per request: the sources a read call was issued for, in order
  outcome    \* per request: one entry for each source the run has left

runVars == <<pc, src, page, pos, status, inflight, calls, outcome>>

\* The state of the GET /tweet handlers (319-405).
VARIABLES
  tpc,       \* per handler: "idle", or the call it awaits: "generate",
             \* "findOne", "tweet", "updateOne", "insertOne"
  cur,       \* per handler: currentCount, read at 345
  tstatus,   \* per handler: HTTP status of its last response, 0 before any
  limitDoc,  \* document 'dailyTweets' of collection rateLimits
  published, \* tweets published on the platform by v2.tweet
  posted     \* documents in collection postedTweets

tweetVars == <<tpc, cur, tstatus, limitDoc, published, posted>>

\* What the /tweet handler leaves alone.
ingestVars ==
  <<tweets, tweetsV1, lastStore, pc, src, page, pos, status, inflight, calls, outcome>>

\* The clock read by new Date() (359): hours since the midnight the process
\* started at.
VARIABLES now

\* The state of the GET /reply handler (408-422) in generateAndPostComment
\* (278-295).
VARIABLES
  rpc,      \* "idle", or the call it awaits: "find", "grok", "reply"
  tweet,    \* the document findHighestEngagementTweet returned (280)
  rstatus,  \* HTTP status of its last response, 0 before any
  replied   \* ids of the tweets a reply was posted to by v2.reply

replyVars == <<rpc, tweet, rstatus, replied>>

\* The state of the GET / handler of the earlier revision (568-589).
VARIABLES
  cpc,   \* "idle", or the function the handler awaits
  cron   \* the last request: whether its key was right, the hour and minute
         \* it arrived at, the functions it invoked, the status answered

cronVars == <<cpc, cron>>

\* The state of module db.js (4-16) and of the calls of connectDB.
VARIABLES
  dbHandle,  \* the module-level db of db.js: 0 while unset, else the Db object
  kpc,       \* per caller: "idle", or "connect" while awaiting client.connect()
  returned,  \* per caller: the Db object its last call returned, 0 if none
  connects,  \* invocations of client.connect()
  handles    \* Db objects made by client.db('donkeeBot')

connVars == <<dbHandle, kpc, returned, connects, handles>>

\* What the /search and /tweet handlers and the persister leave alone.
restVars ==
  <<now, rpc, tweet, rstatus, replied, cpc, cron, dbHandle, kpc, returned, connects, handles>>

\* The entry logged when a run leaves a source: what the read call gave
\* (read: "none", "items", or the error), how many items it held, how many
\* of them storeTweet was called for, and how the source ended.
Entry(k, read, got, sub, kind) ==
  [src |-> k, read |-> read, got |-> got, sub |-> sub, kind |-> kind]

\* How often k occurs in the sequence s.
Count(s, k) == Cardinality({i \in DOMAIN s : s[i] = k})
Entries(r) == {outcome[r][i] : i \in DOMAIN outcome[r]}
EntriesOf(r, k) == {i \in DOMAIN outcome[r] : outcome[r][i].src = k}
Fetched(r, k) == Count(calls[r], k) > 0

\* Variant of NextSource: the next read is issued while the settled one is
\* still counted as pending (a read that is not awaited).
NextSourceNoAwait(r, e, settled) ==
  /\ outcome' = [outcome EXCEPT ![r] = Append(@, e)]
  /\ page' = [page EXCEPT ![r] = <<>>]
  /\ pos' = [pos EXCEPT ![r] = 0]
  /\ IF src[r] < LastSource
     THEN /\ src' = [src EXCEPT ![r] = @ + 1]
          /\ pc' = [pc EXCEPT ![r] = "read"]
          /\ inflight' = inflight \cup {<<r, src[r] + 1>>}
          /\ calls' = [calls EXCEPT ![r] = Append(@, src[r] + 1)]
          /\ UNCHANGED status
     ELSE /\ pc' = [pc EXCEPT ![r] = "done"]
          /\ status' = [status EXCEPT ![r] = 200]
          /\ inflight' = inflight \ settled
          /\ UNCHANGED <<src, calls>>

\* The run leaves source src[r] normally or through the inner catch (180-183)
\* and goes on: the next listTweets call (170), or after the last list the
\* return of searchAndStoreTweets and res.status(200) of the handler (311).
NextSource(r, e, settled) ==
  /\ outcome' = [outcome EXCEPT ![r] = Append(@, e)]
  /\ page' = [page EXCEPT ![r] = <<>>]
  /\ pos' = [pos EXCEPT ![r] = 0]
  /\ IF src[r] < LastSource
     THEN /\ src' = [src EXCEPT ![r] = @ + 1]
          /\ pc' = [pc EXCEPT ![r] = "read"]
          /\ inflight' = (inflight \ settled) \cup {<<r, src[r] + 1>>}
          /\ calls' = [calls EXCEPT ![r] = Append(@, src[r] + 1)]
          /\ UNCHANGED status
     ELSE /\ pc' = [pc EXCEPT ![r] = "done"]
          /\ status' = [status EXCEPT ![r] = 200]
          /\ inflight' = inflight \ settled
          /\ UNCHANGED <<src, calls>>

\* Variant of Rethrow: the outer catch logs and does not rethrow, so the run
\* returns normally and the handler answers 200.
RethrowSwallowed(r, e, settled) ==
  /\ outcome' = [outcome EXCEPT ![r] = Append(@, e)]
  /\ page' = [page EXCEPT ![r] = <<>>]
  /\ pos' = [pos EXCEPT ![r] = 0]
  /\ pc' = [pc EXCEPT ![r] = "done"]
  /\ status' = [status EXCEPT ![r] = 200]
  /\ inflight' = inflight \ settled
  /\ UNCHANGED <<src, calls>>

\* An error reaches the outer catch (185-188), which logs and rethrows; the
\* handler's catch (312-315) answers 500.
Rethrow(r, e, settled) ==
  /\ outcome' = [outcome EXCEPT ![r] = Append(@, e)]
  /\ page' = [page EXCEPT ![r] = <<>>]
  /\ pos' = [pos EXCEPT ![r] = 0]
  /\ pc' = [pc EXCEPT ![r] = "done"]
  /\ status' = [status EXCEPT ![r] = 500]
  /\ inflight' = inflight \ settled
  /\ UNCHANGED <<src, calls>>

\* Variant of Throw: the lists have no try of their own, every error reaches
\* the outer catch.
ThrowAlwaysRethrow(r, e, settled) == Rethrow(r, e, settled)

\* The read for the current source is issued again.
Reissue(r) ==
  /\ calls' = [calls EXCEPT ![r] = Append(@, src[r])]
  /\ UNCHANGED <<pc, src, page, pos, status, inflight, outcome>>

\* Variant of Throw: a rate-limited read is repeated until 5 attempts are made.
ThrowRetryRateLimit(r, e, settled) ==
  IF e.read = "RateLimit" /\ Count(calls[r], src[r]) < 5 THEN Reissue(r)
  ELSE IF src[r] = 0 THEN Rethrow(r, e, settled) ELSE NextSource(r, e, settled)

\* Variant of Throw: a read that failed is tried a second time.
ThrowRetryOnce(r, e, settled) ==
  IF e.read \in ReadErrors /\ Count(calls[r], src[r]) < 2 THEN Reissue(r)
  ELSE IF src[r] = 0 THEN Rethrow(r, e, settled) ELSE NextSource(r, e, settled)

\* An error thrown while source src[r] is processed: the search call and the
\* loop over its page sit directly in the outer try (149-160), each list in
\* its own inner try (169-183).
Throw(r, e, settled) ==
  IF src[r] = 0 THEN Rethrow(r, e, settled) ELSE NextSource(r, e, settled)

\* MongoClient.connect calls back (51-66): db is set.
ConnectCallback ==
  /\ ~db
  /\ db' = TRUE
  /\ UNCHANGED <<tweets, tweetsV1, lastStore>>
  /\ UNCHANGED runVars
  /\ UNCHANGED <<tweetVars, restVars>>

\* GET /search arrives (303-310): 401 on a wrong key, otherwise
\* searchAndStoreTweets starts and issues the search call (151).
GetSearch(r, authorized) ==
  /\ pc[r] = "idle"
  /\ IF authorized
     THEN /\ pc' = [pc EXCEPT ![r] = "read"]
          /\ src' = [src EXCEPT ![r] = 0]
          /\ inflight' = inflight \cup {<<r, 0>>}
          /\ calls' = [calls EXCEPT ![r] = Append(@, 0)]
          /\ UNCHANGED status
     ELSE /\ pc' = [pc EXCEPT ![r] = "done"]
          /\ status' = [status EXCEPT ![r] = 401]
          /\ UNCHANGED <<src, inflight, calls>>
  /\ UNCHANGED <<page, pos, outcome>>
  /\ UNCHANGED storeVars
  /\ UNCHANGED <<tweetVars, restVars>>

\* Variant of ReadReturns: no Array.isArray guard, so for..of over a missing
\* data throws a TypeError (as in the earlier revision, 489).
ReadReturnsNoGuard(r, res) ==
  /\ pc[r] = "read"
  /\ <<r, src[r]>> \in inflight
  /\ IF ~res.isArray
     THEN Throw(r, Entry(src[r], "none", 0, 0, "OtherError"), {<<r, src[r]>>})
     ELSE IF res.data = <<>>
     THEN NextSource(r, Entry(src[r], "none", 0, 0, "Empty"), {<<r, src[r]>>})
     ELSE /\ page' = [page EXCEPT ![r] = res.data]
          /\ pos' = [pos EXCEPT ![r] = 0]
          /\ pc' = [pc EXCEPT ![r] = "store"]
          /\ inflight' = inflight \ {<<r, src[r]>>}
          /\ UNCHANGED <<src, status, calls, outcome>>
  /\ UNCHANGED storeVars
  /\ UNCHANGED <<tweetVars, restVars>>

\* The read call of request r resolves with res (153-160, 172-179): a
\* non-array or an empty array passes straight to the next source.
ReadReturns(r, res) ==
  /\ pc[r] = "read"
  /\ <<r, src[r]>> \in inflight
  /\ IF ~res.isArray
     THEN NextSource(r, Entry(src[r], "none", 0, 0, "Empty"), {<<r, src[r]>>})
     ELSE IF res.data = <<>>
     THEN NextSource(r, Entry(src[r], "none", 0, 0, "Empty"), {<<r, src[r]>>})
     ELSE /\ page' = [page EXCEPT ![r] = res.data]
          /\ pos' = [pos EXCEPT ![r] = 0]
          /\ pc' = [pc EXCEPT ![r] = "store"]
          /\ inflight' = inflight \ {<<r, src[r]>>}
          /\ UNCHANGED <<src, status, calls, outcome>>
  /\ UNCHANGED storeVars
  /\ UNCHANGED <<tweetVars, restVars>>

\* The read call of request r rejects with err.
ReadThrows(r, err) ==
  /\ pc[r] = "read"
  /\ <<r, src[r]>> \in inflight
  /\ Throw(r, Entry(src[r], err, 0, 0, err), {<<r, src[r]>>})
  /\ UNCHANGED storeVars
  /\ UNCHANGED <<tweetVars, restVars>>

\* Variant of StoreItem: each storeTweet call has its own try, so a failed
\* item is skipped and the loop goes on with the rest of the page.
StoreItemContinue(r, storageOk) ==
  /\ pc[r] = "store"
  /\ pos[r] < Len(page[r])
  /\ LET item == page[r][pos[r] + 1]
         st == storeTweet(tweets, item, db, storageOk)
         n == Len(page[r])
     IN
       /\ tweets' = st.coll
       /\ IF pos[r] + 1 = n
          THEN NextSource(r, Entry(src[r], "items", n, n, "Items"), {})
          ELSE /\ pos' = [pos EXCEPT ![r] = @ + 1]
               /\ UNCHANGED <<pc, src, page, status, inflight, calls, outcome>>
  /\ UNCHANGED <<db, tweetsV1, lastStore>>
  /\ UNCHANGED <<tweetVars, restVars>>

\* await storeTweet(tweet) for the next item of the page (154-156, 173-175).
StoreItem(r, storageOk) ==
  /\ pc[r] = "store"
  /\ pos[r] < Len(page[r])
  /\ LET item == page[r][pos[r] + 1]
         st == storeTweet(tweets, item, db, storageOk)
         n == Len(page[r])
     IN
       /\ tweets' = st.coll
       /\ IF st.res # "ok"
          THEN Throw(r, Entry(src[r], "items", n, pos[r] + 1, "PersistError"), {})
          ELSE IF pos[r] + 1 = n
          THEN NextSource(r, Entry(src[r], "items", n, n, "Items"), {})
          ELSE /\ pos' = [pos EXCEPT ![r] = @ + 1]
               /\ UNCHANGED <<pc, src, page, status, inflight, calls, outcome>>
  /\ UNCHANGED <<db, tweetsV1, lastStore>>
  /\ UNCHANGED <<tweetVars, restVars>>

\* ----------------------------------------------------- the persister alone
\* storeTweet of the current revision called with any item.
PersistItem(t, storageOk) ==
  /\ BagCardinality(tweets) + BagCardinality(tweetsV1) < MaxDocs
  /\ LET st == storeTweet(tweets, t, db, storageOk) IN
       /\ tweets' = st.coll
       /\ lastStore' = [rev |-> "current", item |-> t, res |-> st.res]
  /\ UNCHANGED <<db, tweetsV1>>
  /\ UNCHANGED runVars
  /\ UNCHANGED <<tweetVars, restVars>>

\* storeTweet of the earlier revision called with any item.
PersistItemV1(t, storageOk) ==
  /\ BagCardinality(tweets) + BagCardinality(tweetsV1) < MaxDocs
  /\ LET st == storeTweetV1(tweetsV1, t, db, storageOk) IN
       /\ tweetsV1' = st.coll
       /\ lastStore' = [rev |-> "earlier", item |-> t, res |-> st.res]
  /\ UNCHANGED <<db, tweets>>
  /\ UNCHANGED runVars
  /\ UNCHANGED <<tweetVars, restVars>>

\* ------------------------------------------------------- GET /tweet
\* The free-tier limit the handler compares the stored count with.
DailyLimit == 17
\* Tweets the platform accepts in the model.
MaxPublished == 18
\* /tweet requests handled at once.
NumTweetReq == 2
\* Hours the clock runs for.
MaxHour == 24
\* Calls of connectDB that may be running at once.
NumCallers == 3
\* Invocations of client.connect() followed.
MaxConnects == 4

TweetReqs == 1..NumTweetReq

\* The handler answers and is free for the next request.
Respond(q, code) ==
  /\ tpc' = [tpc EXCEPT ![q] = "idle"]
  /\ cur' = [cur EXCEPT ![q] = 0]
  /\ tstatus' = [tstatus EXCEPT ![q] = code]

\* limitDoc?.count || 0, index.js 345.
currentCount(doc) == IF doc.exists THEN OrZero(doc.count) ELSE 0

\* resetTime.setHours(24, 0, 0, 0), index.js 359-360: the midnight that
\* follows time t.
nextMidnight(t) == 24 * ((t \div 24) + 1)

\* updateOne with $inc count, $setOnInsert resetTime and upsert, index.js
\* 361-368: one atomic operation of the server. resetTime is written only
\* when the document is created.
incCount(doc, resetTime) ==
  IF doc.exists THEN [doc EXCEPT !.count = @ + 1]
  ELSE [exists |-> TRUE, count |-> 1, resetTime |-> resetTime]

\* GET /tweet arrives (319-327): 401 on a wrong key, otherwise
\* generateNewTweet is called.
GetTweet(q, authorized) ==
  /\ tpc[q] = "idle"
  /\ IF authorized
     THEN /\ tpc' = [tpc EXCEPT ![q] = "generate"]
          /\ tstatus' = [tstatus EXCEPT ![q] = 0]
          /\ UNCHANGED cur
     ELSE Respond(q, 401)
  /\ UNCHANGED <<limitDoc, published, posted, db>>
  /\ UNCHANGED <<ingestVars, restVars>>

\* generateNewTweet settles (327-344). The text with its two hashtags is
\* never shorter than 10 characters, so the 400 answer of 331-334 cannot
\* occur; truncation (337-340) changes the text only. With db unset,
\* db.collection throws and the catch answers 500.
GenerateSettles(q, ok) ==
  /\ tpc[q] = "generate"
  /\ IF ok /\ db
     THEN /\ tpc' = [tpc EXCEPT ![q] = "findOne"]
          /\ UNCHANGED <<cur, tstatus>>
     ELSE Respond(q, 500)
  /\ UNCHANGED <<limitDoc, published, posted, db>>
  /\ UNCHANGED <<ingestVars, restVars>>

\* findOne settles (344-356): 429 when the count read is 17 or more,
\* otherwise v2.tweet is called.
FindOneSettles(q, ok) ==
  /\ tpc[q] = "findOne"
  /\ IF ~ok THEN Respond(q, 500)
     ELSE IF currentCount(limitDoc) >= DailyLimit THEN Respond(q, 429)
     ELSE /\ tpc' = [tpc EXCEPT ![q] = "tweet"]
          /\ cur' = [cur EXCEPT ![q] = currentCount(limitDoc)]
          /\ UNCHANGED tstatus
  /\ UNCHANGED <<limitDoc, published, posted, db>>
  /\ UNCHANGED <<ingestVars, restVars>>

\* v2.tweet settles (356-368): the tweet is out and updateOne is called, or
\* the platform refused (code 403, 401 or another) and the catch answers.
TweetSettles(q, code) ==
  /\ tpc[q] = "tweet"
  /\ IF code = 200
     THEN /\ published < MaxPublished
          /\ published' = published + 1
          /\ tpc' = [tpc EXCEPT ![q] = "updateOne"]
          /\ UNCHANGED <<cur, tstatus>>
     ELSE /\ Respond(q, code)
          /\ UNCHANGED published
  /\ UNCHANGED <<limitDoc, posted, db>>
  /\ UNCHANGED <<ingestVars, restVars>>

\* updateOne settles (361-376): the count is incremented and insertOne is
\* called, or the write failed and the catch answers 500.
UpdateOneSettles(q, ok) ==
  /\ tpc[q] = "updateOne"
  /\ IF ok
     THEN /\ limitDoc' = incCount(limitDoc, nextMidnight(now))
          /\ tpc' = [tpc EXCEPT ![q] = "insertOne"]
          /\ UNCHANGED <<cur, tstatus>>
     ELSE /\ Respond(q, 500)
          /\ UNCHANGED limitDoc
  /\ UNCHANGED <<published, posted, db>>
  /\ UNCHANGED <<ingestVars, restVars>>

\* insertOne into postedTweets settles (371-383): 200, or 500 from the catch.
InsertOneSettles(q, ok) ==
  /\ tpc[q] = "insertOne"
  /\ IF ok
     THEN /\ posted' = posted + 1
          /\ Respond(q, 200)
     ELSE /\ Respond(q, 500)
          /\ UNCHANGED posted
  /\ UNCHANGED <<limitDoc, published, db>>
  /\ UNCHANGED <<ingestVars, restVars>>

\* Time passes, eight hours at a step. No handler of the program resets
\* the count or removes the document when it does.
Tick ==
  /\ now + 8 <= MaxHour
  /\ now' = now + 8
  /\ UNCHANGED <<storeVars, runVars, tweetVars, replyVars, cronVars, connVars>>

\* ------------------------------------------------------- GET /reply
\* No document: what findOne gives on an empty collection (null).
NoDoc == [tweet_id |-> 0, likes |-> 0, retweets |-> 0, timestamp |-> 0]

\* sort { likes: -1, retweets: -1 }, index.js 233: d is not after e.
SortsFirst(d, e) ==
  d.likes > e.likes \/ (d.likes = e.likes /\ d.retweets >= e.retweets)

\* findOne({}, { sort }) of 233: the filter is empty, so every document of
\* the collection takes part; among documents equal in both keys the
\* server may return any.
findHighestEngagementTweet(coll) ==
  { d \in BagToSet(coll) : \A e \in BagToSet(coll) : SortsFirst(d, e) }

\* The /reply handler answers.
RespondReply(code) ==
  /\ rpc' = "idle"
  /\ tweet' = NoDoc
  /\ rstatus' = code

\* GET /reply arrives (408-416, 278-280, 229-233): 401 on a wrong key; with
\* db unset findHighestEngagementTweet returns null, nothing is posted and
\* the answer is 200; otherwise findOne is called.
GetReply(authorized) ==
  /\ rpc = "idle"
  /\ IF ~authorized THEN RespondReply(401)
     ELSE IF ~db THEN RespondReply(200)
     ELSE /\ rpc' = "find"
          /\ rstatus' = 0
          /\ UNCHANGED tweet
  /\ UNCHANGED <<replied, now>>
  /\ UNCHANGED <<storeVars, runVars, tweetVars, cronVars, connVars>>

\* findOne settles (233-237, 280-282): an error is rethrown up to the
\* handler's catch (500); null ends the request with 200 and no reply;
\* a document goes to generateCommentWithGrok.
FindSettles(ok) ==
  /\ rpc = "find"
  /\ IF ~ok THEN RespondReply(500)
     ELSE IF findHighestEngagementTweet(tweets) = {} THEN RespondReply(200)
     ELSE \E d \in findHighestEngagementTweet(tweets) :
            /\ tweet' = d
            /\ rpc' = "grok"
            /\ UNCHANGED rstatus
  /\ UNCHANGED <<replied, now>>
  /\ UNCHANGED <<storeVars, runVars, tweetVars, cronVars, connVars>>

\* generateCommentWithGrok settles (243-273, 282-286): v2.reply is called
\* with tweet.tweet_id, or the error is rethrown (500).
GrokSettles(ok) ==
  /\ rpc = "grok"
  /\ IF ok
     THEN /\ rpc' = "reply"
          /\ UNCHANGED <<tweet, rstatus>>
     ELSE RespondReply(500)
  /\ UNCHANGED <<replied, now>>
  /\ UNCHANGED <<storeVars, runVars, tweetVars, cronVars, connVars>>

\* v2.reply settles (286-294, 416-421): the reply is out and the answer is
\* 200, or the error is rethrown (500).
ReplySettles(ok) ==
  /\ rpc = "reply"
  /\ IF ok
     THEN /\ replied' = replied \cup {tweet.tweet_id}
          /\ RespondReply(200)
     ELSE /\ RespondReply(500)
          /\ UNCHANGED replied
  /\ UNCHANGED now
  /\ UNCHANGED <<storeVars, runVars, tweetVars, cronVars, connVars>>

\* ------------------------------------------- GET / (earlier revision)
\* The branch taken at 577-582 for a request arriving at hours:minutes. The
\* second condition is tested only when the first is false.
cronDispatch(hours, minutes) ==
  IF minutes = 0 /\ hours % 2 = 0 THEN "searchAndStoreTweets"
  ELSE IF minutes = 0 /\ hours % 8 = 0 THEN "generateAndPostComment"
  ELSE "none"

\* GET / arrives (568-584): 401 on a wrong key; otherwise the function
\* chosen by the clock is called, or 200 is answered at once.
GetRoot(authorized, hours, minutes) ==
  /\ cpc = "idle"
  /\ IF ~authorized
     THEN /\ cron' = [authorized |-> FALSE, hours |-> hours, minutes |-> minutes,
                      invoked |-> {}, status |-> 401]
          /\ UNCHANGED cpc
     ELSE IF cronDispatch(hours, minutes) = "none"
     THEN /\ cron' = [authorized |-> TRUE, hours |-> hours, minutes |-> minutes,
                      invoked |-> {}, status |-> 200]
          /\ UNCHANGED cpc
     ELSE /\ cron' = [authorized |-> TRUE, hours |-> hours, minutes |-> minutes,
                      invoked |-> {cronDispatch(hours, minutes)}, status |-> 0]
          /\ cpc' = cronDispatch(hours, minutes)
  /\ UNCHANGED <<storeVars, runVars, tweetVars, replyVars, connVars, now>>

\* The loop of searchAndStoreTweets of the earlier revision (489-491): the
\* items are stored in order until a call of storeTweet throws.
RECURSIVE storeAllV1(_, _, _)
storeAllV1(coll, items, connected) ==
  IF items = <<>> THEN coll
  ELSE LET st == storeTweetV1(coll, Head(items), connected, TRUE) IN
         IF st.res \in {"ok", "skip"}
         THEN storeAllV1(st.coll, Tail(items), connected)
         ELSE st.coll

\* The function called by GET / settles (584-588). searchAndStoreTweets
\* (486-496) catches every error, of the search, of tweets.data not being
\* iterable and of storeTweet, so the answer is 200. generateAndPostComment
\* (549-565) rejects only when the find does (500); the comment has a
\* fallback text (541-544) and an error of v2.reply is caught (557-562).
CronCallSettles(res, ok) ==
  /\ cpc # "idle"
  /\ cpc' = "idle"
  /\ IF cpc = "searchAndStoreTweets"
     THEN /\ tweetsV1' = storeAllV1(tweetsV1, res.data, db)
          /\ cron' = [cron EXCEPT !.status = 200]
          /\ UNCHANGED replied
     ELSE /\ UNCHANGED tweetsV1
          /\ IF ~db \/ tweetsV1 = EmptyBag
             THEN cron' = [cron EXCEPT !.status = 200] /\ UNCHANGED replied
             ELSE IF ~ok
             THEN cron' = [cron EXCEPT !.status = 500] /\ UNCHANGED replied
             ELSE /\ cron' = [cron EXCEPT !.status = 200]
                  /\ \E d \in BagToSet(tweetsV1), sent \in BOOLEAN :
                       /\ \A e \in BagToSet(tweetsV1) : SortsFirst(d, e)
                       /\ replied' = IF sent THEN replied \cup {d.id} ELSE replied
  /\ UNCHANGED <<db, tweets, lastStore, rpc, tweet, rstatus, now>>
  /\ UNCHANGED <<runVars, tweetVars, connVars>>

\* ------------------------------------------------------- db.js
\* Callers of connectDB (searchTweets, analyzeHashtag, findSimilarTweets of
\* searchService.js) that may be running at once.
Callers == 1..NumCallers

\* connectDB is called (db.js 9-11, 15). With db set it returns db; with db
\* unset it invokes client.connect() and awaits it.
CallConnectDB(c) ==
  /\ kpc[c] = "idle"
  /\ IF dbHandle # 0
     THEN /\ returned' = [returned EXCEPT ![c] = dbHandle]
          /\ UNCHANGED <<kpc, connects>>
     ELSE /\ connects < MaxConnects
          /\ connects' = connects + 1
          /\ kpc' = [kpc EXCEPT ![c] = "connect"]
          /\ returned' = [returned EXCEPT ![c] = 0]
  /\ UNCHANGED <<dbHandle, handles>>
  /\ UNCHANGED <<storeVars, runVars, tweetVars, replyVars, cronVars, now>>

\* client.connect() settles (db.js 11-15). On success db is assigned
\* client.db('donkeeBot'), whatever db holds by now, and returned; whether
\* client.db gives a new Db object or the one of an earlier call depends on
\* the driver (fresh). On failure the call rejects and db is left as it is.
ConnectSettles(c, ok, fresh) ==
  /\ kpc[c] = "connect"
  /\ kpc' = [kpc EXCEPT ![c] = "idle"]
  /\ IF ok
     THEN LET h == IF fresh \/ handles = 0 THEN handles + 1 ELSE handles IN
            /\ handles' = h
            /\ dbHandle' = h
            /\ returned' = [returned EXCEPT ![c] = h]
     ELSE UNCHANGED <<handles, dbHandle, returned>>
  /\ UNCHANGED connects
  /\ UNCHANGED <<storeVars, runVars, tweetVars, replyVars, cronVars, now>>

NoItem ==
  [id |-> 0, has_metrics |-> FALSE, like_count |-> Undefined, retweet_count |-> Undefined,
   created_at |-> 0]

Init ==
  /\ db = FALSE
  /\ tweets = EmptyBag
  /\ tweetsV1 = EmptyBag
  /\ lastStore = [rev |-> "none", item |-> NoItem, res |-> "none"]
  /\ pc = [r \in Reqs |-> "idle"]
  /\ src = [r \in Reqs |-> 0]
  /\ page = [r \in Reqs |-> <<>>]
  /\ pos = [r \in Reqs |-> 0]
  /\ status = [r \in Reqs |-> 0]
  /\ inflight = {}
  /\ calls = [r \in Reqs |-> <<>>]
  /\ outcome = [r \in Reqs |-> <<>>]
  /\ tpc = [q \in TweetReqs |-> "idle"]
  /\ cur = [q \in TweetReqs |-> 0]
  /\ tstatus = [q \in TweetReqs |-> 0]
  /\ limitDoc = [exists |-> FALSE, count |-> 0, resetTime |-> 0]
  /\ published = 0
  /\ posted = 0
  /\ now = 0
  /\ rpc = "idle"
  /\ tweet = NoDoc
  /\ rstatus = 0
  /\ replied = {}
  /\ cpc = "idle"
  /\ cron = [authorized |-> FALSE, hours |-> 0, minutes |-> 0, invoked |-> {}, status |-> 0]
  /\ dbHandle = 0
  /\ kpc = [c \in Callers |-> "idle"]
  /\ returned = [c \in Callers |-> 0]
  /\ connects = 0
  /\ handles = 0

vars ==
  <<db, tweets, tweetsV1, lastStore, pc, src, page, pos, status, inflight, calls, outcome,
    tpc, cur, tstatus, limitDoc, published, posted, now, rpc, tweet, rstatus, replied,
    cpc, cron, dbHandle, kpc, returned, connects, handles>>

\* One /search request, with every answer the platform and the store can give.
Next ==
  \/ ConnectCallback
  \/ \E a \in BOOLEAN : GetSearch(1, a)
  \/ \E d \in ReadResults : ReadReturns(1, d)
  \/ \E e \in ReadErrors : ReadThrows(1, e)
  \/ \E ok \in BOOLEAN : StoreItem(1, ok)

Spec == Init /\ [][Next]_vars

\* Several /search requests handled at once; their read calls answer with no
\* data or with an error.
NextSearch ==
  \E r \in Reqs :
    \/ \E a \in BOOLEAN : GetSearch(r, a)
    \/ ReadReturns(r, NoData)
    \/ ReadThrows(r, "OtherError")

SpecSearch == Init /\ [][NextSearch]_vars

\* The persister of either revision, called with every shape of item.
NextStore ==
  \/ ConnectCallback
  \/ \E t \in RawItems, ok \in BOOLEAN : PersistItem(t, ok)
  \/ \E t \in RawItems, ok \in BOOLEAN : PersistItemV1(t, ok)

SpecStore == Init /\ [][NextStore]_vars

\* /tweet requests handled at once, with every answer of the generator, the
\* platform and the store.
NextTweet ==
  \/ ConnectCallback
  \/ \E q \in TweetReqs :
       \/ \E a \in BOOLEAN : GetTweet(q, a)
       \/ \E ok \in BOOLEAN : GenerateSettles(q, ok)
       \/ \E ok \in BOOLEAN : FindOneSettles(q, ok)
       \/ \E code \in {200, 401, 403, 500} : TweetSettles(q, code)
       \/ \E ok \in BOOLEAN : UpdateOneSettles(q, ok)
       \/ \E ok \in BOOLEAN : InsertOneSettles(q, ok)

SpecTweet == Init /\ [][NextTweet]_vars

\* One /tweet handler serving request after request while time passes.
NextReset ==
  \/ ConnectCallback
  \/ Tick
  \/ \E a \in BOOLEAN : GetTweet(1, a)
  \/ \E ok \in BOOLEAN : GenerateSettles(1, ok)
  \/ \E ok \in BOOLEAN : FindOneSettles(1, ok)
  \/ \E code \in {200, 401, 403, 500} : TweetSettles(1, code)
  \/ \E ok \in BOOLEAN : UpdateOneSettles(1, ok)
  \/ \E ok \in BOOLEAN : InsertOneSettles(1, ok)

SpecReset == Init /\ [][NextReset]_vars

\* Tweets with metrics, written at any hour the clock can show.
DatedItems ==
  { t \in ItemsAt({h \in 0..MaxHour : h % 8 = 0}) :
      t.has_metrics /\ t.like_count # Undefined /\ t.retweet_count # Undefined }

\* The /reply handler serving request after request while tweets already
\* written are stored and time passes.
NextReply ==
  \/ ConnectCallback
  \/ Tick
  \/ \E t \in {i \in DatedItems : i.created_at <= now} : PersistItem(t, TRUE)
  \/ \E a \in BOOLEAN : GetReply(a)
  \/ \E ok \in BOOLEAN : FindSettles(ok)
  \/ \E ok \in BOOLEAN : GrokSettles(ok)
  \/ \E ok \in BOOLEAN : ReplySettles(ok)

SpecReply == Init /\ [][NextReply]_vars

\* GET / of the earlier revision, requested at any quarter of any hour of
\* the day.
NextCron ==
  \/ ConnectCallback
  \/ \E a \in BOOLEAN, hours \in 0..23, minutes \in {0, 15, 30, 45} :
       GetRoot(a, hours, minutes)
  \/ \E res \in ReadResults, ok \in BOOLEAN : CronCallSettles(res, ok)

SpecCron == Init /\ [][NextCron]_vars

\* Calls of connectDB, overlapping or one after another.
NextConn ==
  \/ \E c \in Callers : CallConnectDB(c)
  \/ \E c \in Callers, ok \in BOOLEAN, fresh \in BOOLEAN : ConnectSettles(c, ok, fresh)

SpecConn == Init /\ [][NextConn]_vars

\* ------------------------------------------------------------------ claims
FetchFailed(r, k) == \E e \in Entries(r) : e.src = k /\ e.read \in ReadErrors
\* The run went on from source k: to the read of the next source, or past the
\* last source to a normal return.
WentOn(r, k) ==
  IF k < LastSource THEN Fetched(r, k + 1) ELSE pc[r] = "done" /\ status[r] = 200
\* The run ended at source k with the error raised to the handler.
Raised(r, k) ==
  pc[r] = "done" /\ status[r] = 500 /\ src[r] = k /\ ~Fetched(r, k + 1)

PersistFailedStep(r) ==
  /\ pc[r] = "store"
  /\ <<pc[r], src[r], pos[r]>> # <<pc'[r], src'[r], pos'[r]>>
  /\ tweets' = tweets

RunStep(r) ==
  \/ \E d \in ReadResults : ReadReturns(r, d)
  \/ \E e \in ReadErrors : ReadThrows(r, e)
  \/ \E ok \in BOOLEAN : StoreItem(r, ok)

C6_OtherErrorOnce ==
  \A r \in Reqs : \A e \in Entries(r) :
    e.read = "OtherError" =>
      /\ e.kind = "OtherError"
      /\ Cardinality(EntriesOf(r, e.src)) = 1
      /\ Count(calls[r], e.src) = 1

\* A finished run in which list 4 failed with another error.
C6_Witness ==
  /\ pc[1] = "done"
  /\ \E e \in Entries(1) : e.src = 4 /\ e.read = "OtherError"

\* C7: a source whose read returns zero items (no data array or an empty
\* one) gets no storeTweet call and no error, and the run goes on from it.
C7_EmptyProceeds ==
  \A r \in Reqs : \A e \in Entries(r) :
    e.read = "none" =>
      /\ e.sub = 0
      /\ e.kind = "Empty"
      /\ Cardinality(EntriesOf(r, e.src)) = 1
      /\ WentOn(r, e.src)

\* The query and the last list returned zero items and the run returned.
C7_Witness ==
  /\ pc[1] = "done"
  /\ status[1] = 200
  /\ \E e \in Entries(1) : e.src = 0 /\ e.read = "none"
  /\ \E e \in Entries(1) : e.src = LastSource /\ e.read = "none"

\* C8, as the spec states it: at most one read call is in flight, also when
\* several /search requests are handled at once.
C8_OneReadInFlight == Cardinality(inflight) <= 1

\* C8, amended: each run has at most one read call in flight and issues its
\* reads in configured order; runs of different requests are not serialised,
\* so there are at most as many reads in flight as requests being handled.
C8_OneReadPerRun ==
  /\ \A r \in Reqs :
       /\ Cardinality({c \in inflight : c[1] = r}) <= 1
       /\ pc[r] = "read" <=> <<r, src[r]>> \in inflight
       /\ calls[r] = SubSeq(AllSources, 1, Len(calls[r]))
  /\ Cardinality(inflight) <= Cardinality({r \in Reqs : pc[r] = "read"})

\* Two requests each have a list read in flight.
C8_Witness ==
  /\ Cardinality(inflight) = 2
  /\ \A c \in inflight : c[2] >= 1

\* Documents of the current revision's collection stored under id i.
DocsWithId(i) ==
  LET ds == {d \in BagToSet(tweets) : d.tweet_id = i}
      RECURSIVE Sum(_)
      Sum(S) == IF S = {} THEN 0
                ELSE LET d == CHOOSE x \in S : TRUE IN CopiesIn(d, tweets) + Sum(S \ {d})
  IN Sum(ds)

\* C3: no two stored records share a tweet_id, and a storeTweet call that
\* returned success leaves exactly one record with the item's id.
C3_OneRecordPerId ==
  /\ \A i \in Ids : DocsWithId(i) <= 1
  /\ (lastStore.rev = "current" /\ lastStore.res = "ok") =>
       DocsWithId(lastStore.item.id) = 1

\* C9: no persister call fails because metric fields are missing, every
\* stored record has numeric likes and retweets, and a record stored for an
\* item without a like (retweet) count has likes (retweets) 0.
C9_MissingMetricsAreZero ==
  /\ lastStore.res \notin {"TypeError", "ValidationError"}
  /\ \A d \in BagToSet(tweets) : d.likes \in Nat /\ d.retweets \in Nat
  /\ \A d \in BagToSet(tweetsV1) : d.likes \in Nat /\ d.retweets \in Nat
  /\ (lastStore.rev = "current" /\ lastStore.res = "ok") =>
       \E d \in BagToSet(tweets) :
         /\ d.tweet_id = lastStore.item.id
         /\ OptLikes(lastStore.item) = Undefined => d.likes = 0
         /\ OptRetweets(lastStore.item) = Undefined => d.retweets = 0
  /\ (lastStore.rev = "earlier" /\ lastStore.res = "ok") =>
       \E d \in BagToSet(tweetsV1) :
         /\ d.id = lastStore.item.id
         /\ OptLikes(lastStore.item) = Undefined => d.likes = 0
         /\ OptRetweets(lastStore.item) = Undefined => d.retweets = 0

\* C9 restricted to the current revision's persister (123-143), where it holds.
C9_CurrentRevision ==
  /\ lastStore.rev = "current" => lastStore.res \notin {"TypeError", "ValidationError"}
  /\ \A d \in BagToSet(tweets) : d.likes \in Nat /\ d.retweets \in Nat
  /\ (lastStore.rev = "current" /\ lastStore.res = "ok") =>
       \E d \in BagToSet(tweets) :
         /\ d.tweet_id = lastStore.item.id
         /\ OptLikes(lastStore.item) = Undefined => d.likes = 0
         /\ OptRetweets(lastStore.item) = Undefined => d.retweets = 0

\* C10: the endpoint never publishes more than 17 tweets, and publishes none
\* while the stored dailyTweets count is 17 or more.
C10_DailyLimitEnforced ==
  [][published' > published =>
       (published' <= DailyLimit /\ currentCount(limitDoc) < DailyLimit)]_vars

\* C11: the daily count resets at midnight: once the stored resetTime has
\* passed, no /tweet request is refused with 429 any more.
C11_AcceptedAfterReset ==
  [][\A q \in TweetReqs :
       (tpc[q] = "findOne" /\ tstatus'[q] = 429) => now < limitDoc.resetTime]_vars

\* Document d was written within the last 8 hours.
InLastEightHours(d) == now - d.timestamp <= 8

\* C12: the tweet generateAndPostComment picks to reply to is a stored tweet
\* written within the last 8 hours, and no stored tweet of the last 8 hours
\* is before it in the order by likes, then retweets; with no stored tweet
\* of the last 8 hours none is picked.
C12_BestOfLastEightHours ==
  [][(rpc = "find" /\ rpc' = "grok") =>
       /\ tweet' \in BagToSet(tweets)
       /\ InLastEightHours(tweet')
       /\ \A e \in BagToSet(tweets) : InLastEightHours(e) => SortsFirst(tweet', e)]_vars

\* C13: an authorized GET / arriving at minute 0 of an hour divisible by 8
\* invokes generateAndPostComment, and one arriving at minute 0 of an even
\* hour invokes searchAndStoreTweets.
C13_CronSchedule ==
  (cron.authorized /\ cron.minutes = 0) =>
     /\ cron.hours % 8 = 0 => "generateAndPostComment" \in cron.invoked
     /\ cron.hours % 2 = 0 => "searchAndStoreTweets" \in cron.invoked

\* C14: whatever calls of connectDB are made, overlapping or not,
\* client.connect() is invoked at most once and all callers that were given
\* a database handle were given the same one.
C14_ConnectsOnce ==
  /\ connects <= 1
  /\ \A c1, c2 \in Callers : (returned[c1] # 0 /\ returned[c2] # 0) => returned[c1] = returned[c2]

====
